---- MODULE Spec2Model ----
(***************************************************************************)
(* The WebSocket connection manager of the API gateway (package websocket):*)
(* Manager.clients, the coordination loop Manager.Start with its register, *)
(* unregister and broadcast cases, the direct path Manager.SendToUser, the  *)
(* read operations, and the sync.RWMutex they share (Spec, SpecOrder,       *)
(* SpecDisjoint, SpecList, SpecConnected, SpecReads, SpecTeardown,          *)
(* SpecEmpty, and SpecFair under fair scheduling); the singleton NewManager *)
(* and GetManager (SpecSingleton); and JWTMiddleware with the handlers      *)
(* behind it (SpecAuth).                                                    *)
(***************************************************************************)
EXTENDS Naturals, Sequences, FiniteSets, TLC

\* ------------------------------------------------------------------ bounds
\* Capacity of every Client.Send channel (set by whoever constructs a Client).
BufCap == 2
\* How many Unregister requests are submitted in all.
MaxUnregCalls == 2
\* How many read locks the loop may leave held before no undecodable message
\* is submitted any more.
MaxLeaks == 1
\* How many payloads the caller of the ordering runs gets accepted per
\* Client before it stops calling.
MaxOrderSends == 3

\* ------------------------------------------------------------- the universe
None == "none"

\* Client values (pointers): two connections of user u1, one of user u2.
Handles == {"hA", "hB", "hC"}

\* A connection whose Client.ID is the empty string (nothing in the package
\* refuses one), and all Client values.
EmptyIDHandle == "hE"
AllHandles == Handles \cup {EmptyIDHandle}

\* Client.ID of each connection.
ID(h) ==
    IF h = "hC" THEN "u2" ELSE IF h = EmptyIDHandle THEN "" ELSE "u1"

\* Keys that are looked up in Manager.clients.
UserIDs == {"u1", "u2", ""}

\* A Content that json.Marshal rejects.
Unencodable == "unencodable"

\* Message values handed to Broadcast and SendToUser.
Messages ==
    { [ReceiverID |-> "u1", Content |-> "hello"],
      [ReceiverID |-> "u1", Content |-> Unencodable],
      [ReceiverID |-> "u2", Content |-> "hello"],
      [ReceiverID |-> "",   Content |-> "hello"] }

\* The loop's variable message while no broadcast is being processed.
NoMessage == [ReceiverID |-> None, Content |-> None]

\* Goroutines that call SendToUser, each with SendToUser(m.ReceiverID, m).
Senders == {"s1"}

\* json.Marshal(message): the error, or the JSON object with the tagged names.
Marshal(m) ==
    IF m.Content = Unencodable
    THEN [err |-> TRUE]
    ELSE [err |-> FALSE,
          json |-> [receiver_id |-> m.ReceiverID, content |-> m.Content]]

\* ------------------------------------------------------------------- state
VARIABLES
    clients,     \* Manager.clients: user id -> Client, None when absent
    Send,        \* Client.Send of each Client: the queued payloads
    closed,      \* whether close(client.Send) has run for each Client
    register,    \* Clients whose RegisterClient call is blocked on m.register
    readers,     \* Manager.mutex: number of read locks held
    writer,      \* Manager.mutex: whether the write lock is held
    pc,          \* where the goroutine running Manager.Start is
    client,      \* the loop's local variable client
    message,     \* the loop's local variable message
    crashed,     \* an unrecovered panic has ended the process
    spc,         \* where each SendToUser caller is
    slog,        \* the log line each caller's last SendToUser ended with
    registered,  \* Clients the register case has received
    lastReg,     \* per user id, the Client the register case stored last
    unregCalls,  \* how many Clients were sent on m.unregister so far
    accepted,    \* per Client, the payloads SendToUser calls reported sent
    received,    \* per Client, the payloads its owner took from client.Send
    lastOp,      \* per user id, the structural request the loop finished last
    unregDone,   \* per Client, how many of its Unregisters the loop finished
    lastBc,      \* the Message the broadcast case received last
    qusers,      \* the slice the last GetConnectedUsers call returned
    qconn,       \* the last IsUserConnected call: its argument and result
    globalManager, \* the package variable globalManager: a Manager or None
    managerOnce, \* the package variable managerOnce: "new", "running", "done"
    made,        \* the Managers allocated so far
    loops,       \* how many goroutines running Manager.Start were started
    cpc,         \* where each caller of NewManager or GetManager is
    cret,        \* what each caller's call returned
    httpReq,     \* the HTTP request a gin.Context was made for
    ctxKeys,     \* that gin.Context's keys (c.Set, c.Get): None when not set
    httpStatus,  \* the status the response was given
    httpError,   \* the "error" of the JSON body the response was given
    stage        \* how far the handler chain of the request has run

\* The state that is outside the Manager and its callers' positions: what
\* the callers and the connection owners of the ordering runs record,
orderVars == <<accepted, received>>

\* What the callers of the read operations were handed back.
queryVars == <<qusers, qconn>>

\* What is recorded of the requests the loop took from its channels.
requestVars == <<unregDone, lastBc>>

\* The package variables of the singleton and the callers that use them.
singletonVars == <<globalManager, managerOnce, made, loops, cpc, cret>>

\* One HTTP request on a route guarded by JWTMiddleware.
authVars == <<httpReq, ctxKeys, httpStatus, httpError, stage>>

\* The state outside the package's Manager methods.
outsideVars == <<singletonVars, authVars>>

\* The state outside the Manager other than lastOp.
untrackedVars == <<orderVars, queryVars, requestVars, outsideVars>>

auxVars == <<untrackedVars, lastOp>>

\* The Manager, its loop, its callers' positions and what is recorded of
\* them.
registryVars ==
    <<clients, Send, closed, register, readers, writer, pc, client,
      message, crashed, spc, slog, registered, lastReg, unregCalls>>

vars == <<registryVars, auxVars>>

loopVars == <<pc, client, message>>
senderVars == <<spc, slog>>
mapVars == <<clients, Send, closed>>
ghostVars == <<registered, lastReg, unregCalls>>

\* Manager values (pointers) an allocation can yield, and the goroutines that
\* call NewManager or GetManager.
Managers == {"m1", "m2", "m3"}
Callers == {"c1", "c2", "c3"}

\* The Manager of NewManager's literal: an empty map, unbuffered channels,
\* nobody holding the mutex; the loop at its select, no caller anywhere.
RegistryInit ==
    /\ clients = [u \in UserIDs |-> None]
    /\ Send = [h \in AllHandles |-> <<>>]
    /\ closed = [h \in AllHandles |-> FALSE]
    /\ register = {}
    /\ readers = 0
    /\ writer = FALSE
    /\ pc = "select"
    /\ client = None
    /\ message = NoMessage
    /\ crashed = FALSE
    /\ spc = [s \in Senders |-> "idle"]
    /\ slog = [s \in Senders |-> None]
    /\ registered = {}
    /\ lastReg = [u \in UserIDs |-> None]
    /\ unregCalls = 0

\* Nothing recorded, nothing returned yet.
ObserverInit ==
    /\ accepted = [h \in AllHandles |-> <<>>]
    /\ received = [h \in AllHandles |-> <<>>]
    /\ lastOp = [u \in UserIDs |-> None]
    /\ qusers = <<>>
    /\ qconn = [u |-> None, ok |-> FALSE]
    /\ unregDone = [h \in AllHandles |-> 0]
    /\ lastBc = NoMessage

\* The package variables at program start: var globalManager *Manager,
\* var managerOnce sync.Once.
SingletonInit ==
    /\ globalManager = None
    /\ managerOnce = "new"
    /\ made = {}
    /\ loops = 0
    /\ cpc = [c \in Callers |-> [fn |-> None, at |-> "idle"]]
    /\ cret = [c \in Callers |-> None]

\* The package variables once a first NewManager call has returned.
SingletonDone ==
    /\ globalManager = "m1"
    /\ managerOnce = "done"
    /\ made = {"m1"}
    /\ loops = 1
    /\ cpc = [c \in Callers |-> [fn |-> None, at |-> "idle"]]
    /\ cret = [c \in Callers |-> None]

\* The keys handlers and middleware use with c.Set and c.Get.
ContextKeys == {"user_id", "user_role", "userID"}

\* No response written yet.
NoStatus == 0

\* No HTTP request is being served.
AuthIdle ==
    /\ httpReq = [header |-> <<>>, route |-> None, body |-> None]
    /\ ctxKeys = [k \in ContextKeys |-> None]
    /\ httpStatus = NoStatus
    /\ httpError = None
    /\ stage = "idle"

\* NewManager has run: an empty map, unbuffered channels, the loop started.
Init ==
    /\ RegistryInit
    /\ ObserverInit
    /\ SingletonDone
    /\ AuthIdle

\* ------------------------------------------------------------ sync.RWMutex
\* A Lock call that has not returned yet: it blocks new RLock calls.
WriterPending == pc \in {"reg_lock", "unreg_lock", "evict_lock"}

\* RLock returns only when no writer holds or waits for the mutex.
CanRLock == ~writer /\ ~WriterPending

\* Mutant of CanLock: the write lock is granted while read locks are held.
CanLockOverReaders == ~writer

\* Lock returns only when no reader and no writer holds the mutex.
CanLock == ~writer /\ readers = 0

\* Read locks that are held by no running call: each was taken by the loop
\* and never released.
Leaked ==
    readers - Cardinality({s \in Senders : spc[s] \in {"body", "q_body"}})
            - (IF pc \in {"bc_body", "bc_runlock"} THEN 1 ELSE 0)

\* ------------------------------------------------------------ chan []byte
\* Mutant of TrySend: the buffer has no bound.
TrySendUnbounded(h) == IF closed[h] THEN "panic" ELSE "sent"

\* A send in a select with a default case: "panic" on a closed channel,
\* "sent" when the buffer has room, "default" otherwise.
TrySend(h) ==
    IF closed[h] THEN "panic"
    ELSE IF Len(Send[h]) < BufCap THEN "sent"
    ELSE "default"

\* ------------------------------------------------- the map and the buffers
\* Mutant of RegisterMap: an occupied slot is kept, the new Client is not
\* stored.
RegisterMapKeepsFirst(cl, h) ==
    IF cl[ID(h)] = None THEN [cl EXCEPT ![ID(h)] = h] ELSE cl

\* m.clients[client.ID] = client
RegisterMap(cl, h) == [cl EXCEPT ![ID(h)] = h]

\* Mutant of UnregisterFound: the unregister case does not test the map.
UnregisterFoundAlways(cl, h) == TRUE

\* _, ok := m.clients[client.ID]
UnregisterFound(cl, h) == cl[ID(h)] # None

\* Mutant of DeleteMap: the delete uses a key that is not in the map, the
\* entry stays.
DeleteMapWrongKey(cl, h) == cl

\* Mutant of DeleteMap: the map is replaced by an empty one.
DeleteMapAll(cl, h) == [u \in UserIDs |-> None]

\* delete(m.clients, client.ID)
DeleteMap(cl, h) == [cl EXCEPT ![ID(h)] = None]

\* client, ok := m.clients[userID]
Lookup(cl, u) == cl[u]

\* Mutant of Enqueue: the payload goes to the head of the buffer.
EnqueueFront(q, h, bytes) == [q EXCEPT ![h] = <<bytes>> \o q[h]]

\* client.Send <- jsonMessage, when the send case is the one taken
Enqueue(q, h, bytes) == [q EXCEPT ![h] = Append(q[h], bytes)]

\* ---------------------------------------------------------- RegisterClient
\* Mutant of RegisterClient: the caller stores the Client in the map itself
\* instead of handing it to the loop.
RegisterClientDirect(h) ==
    /\ ~crashed
    /\ h \notin registered
    /\ clients' = RegisterMap(clients, h)
    /\ registered' = registered \cup {h}
    /\ lastReg' = [lastReg EXCEPT ![ID(h)] = h]
    /\ UNCHANGED <<Send, closed, register, readers, writer, loopVars,
                   crashed, senderVars, unregCalls>>

\* m.register <- client: the caller blocks until the loop receives.  Each
\* Client is a new connection and is submitted once.
RegisterClient(h) ==
    /\ ~crashed
    /\ h \notin register
    /\ h \notin registered
    /\ register' = register \cup {h}
    /\ UNCHANGED <<mapVars, readers, writer, loopVars, crashed, senderVars,
                   ghostVars>>

\* ------------------------------------------------- Start: the register case
\* case client := <-m.register, up to the call of m.mutex.Lock()
RecvRegister(h) ==
    /\ ~crashed
    /\ pc = "select"
    /\ h \in register
    /\ register' = register \ {h}
    /\ registered' = registered \cup {h}
    /\ client' = h
    /\ pc' = "reg_lock"
    /\ UNCHANGED <<mapVars, readers, writer, message, crashed, senderVars,
                   lastReg, unregCalls>>

\* m.mutex.Lock() returns
RegisterLock ==
    /\ ~crashed
    /\ pc = "reg_lock"
    /\ CanLock
    /\ writer' = TRUE
    /\ pc' = "reg_cs"
    /\ UNCHANGED <<mapVars, register, readers, client, message, crashed,
                   senderVars, ghostVars>>

\* m.clients[client.ID] = client; m.mutex.Unlock()
RegisterCS ==
    /\ ~crashed
    /\ pc = "reg_cs"
    /\ clients' = RegisterMap(clients, client)
    /\ writer' = FALSE
    /\ pc' = "select"
    /\ lastReg' = [lastReg EXCEPT ![ID(client)] = client]
    /\ client' = None
    /\ UNCHANGED <<Send, closed, register, readers, message, crashed,
                   senderVars, registered, unregCalls>>

\* ----------------------------------------------- Start: the unregister case
\* case client := <-m.unregister and the test of m.clients[client.ID].  The
\* sender is the owner of a connection that was registered before.
RecvUnregister(h) ==
    /\ ~crashed
    /\ pc = "select"
    /\ h \in registered
    /\ unregCalls < MaxUnregCalls
    /\ unregCalls' = unregCalls + 1
    /\ IF UnregisterFound(clients, h)
       THEN client' = h /\ pc' = "unreg_lock"
       ELSE client' = None /\ pc' = "select"
    /\ UNCHANGED <<mapVars, register, readers, writer, message, crashed,
                   senderVars, registered, lastReg>>

\* m.mutex.Lock() returns
UnregisterLock ==
    /\ ~crashed
    /\ pc = "unreg_lock"
    /\ CanLock
    /\ writer' = TRUE
    /\ pc' = "unreg_cs"
    /\ UNCHANGED <<mapVars, register, readers, client, message, crashed,
                   senderVars, ghostVars>>

\* delete(m.clients, client.ID); close(client.Send); m.mutex.Unlock().
\* close of a closed channel panics, in a goroutine with no recover.
UnregisterCS ==
    /\ ~crashed
    /\ pc = "unreg_cs"
    /\ clients' = DeleteMap(clients, client)
    /\ IF closed[client]
       THEN /\ crashed' = TRUE
            /\ UNCHANGED <<closed, writer, pc, client>>
       ELSE /\ closed' = [closed EXCEPT ![client] = TRUE]
            /\ writer' = FALSE
            /\ pc' = "select"
            /\ client' = None
            /\ UNCHANGED crashed
    /\ UNCHANGED <<Send, register, readers, message, senderVars, ghostVars>>

\* ------------------------------------------------ Start: the broadcast case
\* Mutant of RecvBroadcast: message.ReceiverID is not tested.
RecvBroadcastNoTest(m) ==
    /\ ~crashed
    /\ pc = "select"
    /\ Marshal(m).err => Leaked < MaxLeaks
    /\ message' = m
    /\ pc' = "bc_rlock"
    /\ UNCHANGED <<mapVars, register, readers, writer, client, crashed,
                   senderVars, ghostVars>>

\* case message := <-m.broadcast and the test of message.ReceiverID
RecvBroadcast(m) ==
    /\ ~crashed
    /\ pc = "select"
    /\ Marshal(m).err => Leaked < MaxLeaks
    /\ IF m.ReceiverID # ""
       THEN message' = m /\ pc' = "bc_rlock"
       ELSE message' = NoMessage /\ pc' = "select"
    /\ UNCHANGED <<mapVars, register, readers, writer, client, crashed,
                   senderVars, ghostVars>>

\* m.mutex.RLock() returns
BroadcastRLock ==
    /\ ~crashed
    /\ pc = "bc_rlock"
    /\ CanRLock
    /\ readers' = readers + 1
    /\ pc' = "bc_body"
    /\ UNCHANGED <<mapVars, register, writer, client, message, crashed,
                   senderVars, ghostVars>>

\* Mutant of BroadcastLog: the send is not in a select with a default case,
\* a full buffer takes the payload all the same.
BroadcastLogNoDefault(cl, m) ==
    LET c == Lookup(cl, m.ReceiverID)
    IN IF c = None THEN "not found or offline"
       ELSE IF Marshal(m).err THEN "error marshaling"
       ELSE IF closed[c] THEN "panic"
       ELSE "message sent"

\* The log line the broadcast case ends with for message m (none is written
\* on a marshal error's `continue` but the error line).
BroadcastLog(cl, m) ==
    LET c == Lookup(cl, m.ReceiverID)
    IN IF c = None THEN "not found or offline"
       ELSE IF Marshal(m).err THEN "error marshaling"
       ELSE IF TrySend(c) = "panic" THEN "panic"
       ELSE IF TrySend(c) = "sent" THEN "message sent"
       ELSE "removed due to blocked channel"

\* The lookup, json.Marshal and the select on client.Send.  A marshal error
\* takes `continue`; a full buffer takes the default case up to its call of
\* m.mutex.Lock(), which is after its m.mutex.RUnlock().
BroadcastBody ==
    /\ ~crashed
    /\ pc = "bc_body"
    /\ LET c == Lookup(clients, message.ReceiverID)
           l == BroadcastLog(clients, message)
       IN CASE l = "not found or offline" ->
                 /\ pc' = "bc_runlock"
                 /\ UNCHANGED <<Send, readers, client, message, crashed>>
            [] l = "error marshaling" ->
                 /\ pc' = "select"
                 /\ message' = NoMessage
                 /\ UNCHANGED <<Send, readers, client, crashed>>
            [] l = "panic" ->
                 /\ crashed' = TRUE
                 /\ UNCHANGED <<Send, readers, pc, client, message>>
            [] l = "message sent" ->
                 /\ Send' = Enqueue(Send, c, Marshal(message).json)
                 /\ pc' = "bc_runlock"
                 /\ UNCHANGED <<readers, client, message, crashed>>
            [] OTHER ->
                 /\ readers' = readers - 1
                 /\ client' = c
                 /\ pc' = "evict_lock"
                 /\ UNCHANGED <<Send, message, crashed>>
    /\ UNCHANGED <<clients, closed, register, writer, senderVars, ghostVars>>

\* m.mutex.Lock() of the default case returns
EvictLock ==
    /\ ~crashed
    /\ pc = "evict_lock"
    /\ CanLock
    /\ writer' = TRUE
    /\ pc' = "evict_cs"
    /\ UNCHANGED <<mapVars, register, readers, client, message, crashed,
                   senderVars, ghostVars>>

\* close(client.Send); delete(m.clients, client.ID); m.mutex.Unlock()
EvictCS ==
    /\ ~crashed
    /\ pc = "evict_cs"
    /\ IF closed[client]
       THEN /\ crashed' = TRUE
            /\ UNCHANGED <<clients, closed, writer, pc, client>>
       ELSE /\ closed' = [closed EXCEPT ![client] = TRUE]
            /\ clients' = DeleteMap(clients, client)
            /\ writer' = FALSE
            /\ pc' = "evict_rlock"
            /\ client' = None
            /\ UNCHANGED crashed
    /\ UNCHANGED <<Send, register, readers, message, senderVars, ghostVars>>

\* m.mutex.RLock() at the end of the default case returns
EvictRLock ==
    /\ ~crashed
    /\ pc = "evict_rlock"
    /\ CanRLock
    /\ readers' = readers + 1
    /\ pc' = "bc_runlock"
    /\ UNCHANGED <<mapVars, register, writer, client, message, crashed,
                   senderVars, ghostVars>>

\* m.mutex.RUnlock() that ends the broadcast case
BroadcastRUnlock ==
    /\ ~crashed
    /\ pc = "bc_runlock"
    /\ readers' = readers - 1
    /\ pc' = "select"
    /\ message' = NoMessage
    /\ UNCHANGED <<mapVars, register, writer, client, crashed, senderVars,
                   ghostVars>>

\* --------------------------------------------------------------- SendToUser
\* A goroutine calls SendToUser: up to m.mutex.RLock()
CallSendToUser(s) ==
    /\ ~crashed
    /\ spc[s] = "idle"
    /\ spc' = [spc EXCEPT ![s] = "rlock"]
    /\ slog' = [slog EXCEPT ![s] = None]
    /\ UNCHANGED <<mapVars, register, readers, writer, loopVars, crashed,
                   ghostVars>>

\* m.mutex.RLock() returns
SendRLock(s) ==
    /\ ~crashed
    /\ spc[s] = "rlock"
    /\ CanRLock
    /\ readers' = readers + 1
    /\ spc' = [spc EXCEPT ![s] = "body"]
    /\ UNCHANGED <<mapVars, register, writer, loopVars, crashed, slog,
                   ghostVars>>

\* Mutant of SendToUserLog: the ok of the lookup is not tested, a missing
\* entry is used as a nil Client.
SendToUserLogNoOk(cl, u, m) ==
    LET c == Lookup(cl, u)
    IN IF Marshal(m).err THEN "error marshaling"
       ELSE IF c = None THEN "panic"
       ELSE IF TrySend(c) = "panic" THEN "panic"
       ELSE IF TrySend(c) = "sent" THEN "direct message sent"
       ELSE "channel full"

\* The log line the body of SendToUser(u, m) ends with.
SendToUserLog(cl, u, m) ==
    LET c == Lookup(cl, u)
    IN IF c = None THEN "not found or offline"
       ELSE IF Marshal(m).err THEN "error marshaling"
       ELSE IF TrySend(c) = "panic" THEN "panic"
       ELSE IF TrySend(c) = "sent" THEN "direct message sent"
       ELSE "channel full"

\* What SendToUser(u, m) hands back to its caller: the function has no
\* result, whatever its body did.
SendToUserResult(cl, u, m) == None

\* Mutant of SendToUserSend: a full buffer is emptied to make room for the
\* new payload.
SendToUserSendFlush(cl, q, u, m) ==
    LET c == Lookup(cl, u)
    IN IF SendToUserLog(cl, u, m) = "direct message sent"
       THEN Enqueue(q, c, Marshal(m).json)
       ELSE IF SendToUserLog(cl, u, m) = "channel full"
       THEN [q EXCEPT ![c] = <<Marshal(m).json>>]
       ELSE q

\* What the body of SendToUser(u, m) leaves on the buffers.
SendToUserSend(cl, q, u, m) ==
    IF SendToUserLog(cl, u, m) = "direct message sent"
    THEN Enqueue(q, Lookup(cl, u), Marshal(m).json)
    ELSE q

\* Mutant of SendBody: a full buffer makes SendToUser drop the entry of u as
\* the broadcast case does.
SendBodyEvicts(s, u, m) ==
    /\ ~crashed
    /\ spc[s] = "body"
    /\ Send' = SendToUserSend(clients, Send, u, m)
    /\ clients' = IF SendToUserLog(clients, u, m) = "channel full"
                  THEN DeleteMap(clients, Lookup(clients, u))
                  ELSE clients
    /\ IF SendToUserLog(clients, u, m) = "panic"
       THEN crashed' \in BOOLEAN
       ELSE UNCHANGED crashed
    /\ readers' = readers - 1
    /\ spc' = [spc EXCEPT ![s] = "idle"]
    /\ slog' = [slog EXCEPT ![s] = SendToUserLog(clients, u, m)]
    /\ UNCHANGED <<closed, register, writer, loopVars, ghostVars>>

\* The body of SendToUser(u, m) and its deferred m.mutex.RUnlock().  The
\* arguments have no effect before the body, so they are drawn here.  A
\* panic leaves SendToUser after the deferred unlock; what the caller does
\* with it is the caller's choice.
SendBody(s, u, m) ==
    /\ ~crashed
    /\ spc[s] = "body"
    /\ Send' = SendToUserSend(clients, Send, u, m)
    /\ IF SendToUserLog(clients, u, m) = "panic"
       THEN crashed' \in BOOLEAN
       ELSE UNCHANGED crashed
    /\ readers' = readers - 1
    /\ spc' = [spc EXCEPT ![s] = "idle"]
    /\ slog' = [slog EXCEPT ![s] = SendToUserLog(clients, u, m)]
    /\ UNCHANGED <<clients, closed, register, writer, loopVars, ghostVars>>

\* ----------------------------------------------------------- read operations
\* Mutant of IsUserConnected: a user id counts as connected once a Client
\* was stored for it, removed since or not.
IsUserConnectedEver(cl, u) == cl[u] # None \/ lastReg[u] # None

\* IsUserConnected: _, ok := m.clients[userID]; return ok
IsUserConnected(cl, u) == cl[u] # None

\* Mutant of GetConnectedUsers: one id per Client that was stored and not
\* closed since, whatever the map holds now.
GetConnectedUsersByClient(cl) ==
    {ID(h) : h \in {c \in registered : ~closed[c]}}

\* GetConnectedUsers: the keys of m.clients
GetConnectedUsers(cl) == {u \in UserIDs : cl[u] # None}

\* for id := range m.clients { users = append(users, id) }: the slices the
\* loop can build, one for each order the map iteration can take.
KeyOrders(cl) ==
    LET keys == GetConnectedUsers(cl)
        n == Cardinality(keys)
    IN {q \in [1..n -> keys] : \A i, j \in 1..n : q[i] = q[j] => i = j}

\* A goroutine calls GetConnectedUsers or IsUserConnected: up to
\* m.mutex.RLock()
CallRead(s) ==
    /\ ~crashed
    /\ spc[s] = "idle"
    /\ spc' = [spc EXCEPT ![s] = "q_rlock"]
    /\ UNCHANGED <<mapVars, register, readers, writer, loopVars, crashed,
                   slog, ghostVars>>

\* m.mutex.RLock() returns
ReadRLock(s) ==
    /\ ~crashed
    /\ spc[s] = "q_rlock"
    /\ CanRLock
    /\ readers' = readers + 1
    /\ spc' = [spc EXCEPT ![s] = "q_body"]
    /\ UNCHANGED <<mapVars, register, writer, loopVars, crashed, slog,
                   ghostVars>>

\* The body of GetConnectedUsers and its deferred m.mutex.RUnlock(): the
\* caller is handed a new slice.
GetConnectedUsersBody(s) ==
    /\ ~crashed
    /\ spc[s] = "q_body"
    /\ qusers' \in KeyOrders(clients)
    /\ readers' = readers - 1
    /\ spc' = [spc EXCEPT ![s] = "idle"]
    /\ UNCHANGED <<mapVars, register, writer, loopVars, crashed, slog,
                   ghostVars, orderVars, lastOp, qconn, requestVars,
                   outsideVars>>

\* The body of IsUserConnected(u) and its deferred m.mutex.RUnlock().  The
\* argument has no effect before the body, so it is drawn here.
IsUserConnectedBody(s, u) ==
    /\ ~crashed
    /\ spc[s] = "q_body"
    /\ qconn' = [u |-> u, ok |-> IsUserConnected(clients, u)]
    /\ readers' = readers - 1
    /\ spc' = [spc EXCEPT ![s] = "idle"]
    /\ UNCHANGED <<mapVars, register, writer, loopVars, crashed, slog,
                   ghostVars, orderVars, lastOp, qusers, requestVars,
                   outsideVars>>

\* ------------------------------------------------- the owner of a connection
\* The write pump of a connection receives one payload from client.Send.
Drain(h) ==
    /\ ~crashed
    /\ Send[h] # <<>>
    /\ Send' = [Send EXCEPT ![h] = Tail(@)]
    /\ UNCHANGED <<clients, closed, register, readers, writer, loopVars,
                   crashed, senderVars, ghostVars>>

\* -------------------------------------------------------------------- system
Loop ==
    \/ \E h \in Handles : RecvRegister(h) /\ UNCHANGED auxVars
    \/ RegisterLock /\ UNCHANGED auxVars
    \/ RegisterCS /\ UNCHANGED auxVars
    \/ \E h \in Handles : RecvUnregister(h) /\ UNCHANGED auxVars
    \/ UnregisterLock /\ UNCHANGED auxVars
    \/ UnregisterCS /\ UNCHANGED auxVars
    \/ \E m \in Messages : RecvBroadcast(m) /\ UNCHANGED auxVars
    \/ BroadcastRLock /\ UNCHANGED auxVars
    \/ BroadcastBody /\ UNCHANGED auxVars
    \/ EvictLock /\ UNCHANGED auxVars
    \/ EvictCS /\ UNCHANGED auxVars
    \/ EvictRLock /\ UNCHANGED auxVars
    \/ BroadcastRUnlock /\ UNCHANGED auxVars

Next ==
    \/ \E h \in Handles : RegisterClient(h) /\ UNCHANGED auxVars
    \/ Loop
    \/ \E s \in Senders : CallSendToUser(s) /\ UNCHANGED auxVars
    \/ \E s \in Senders : SendRLock(s) /\ UNCHANGED auxVars
    \/ \E s \in Senders, m \in Messages :
          SendBody(s, m.ReceiverID, m) /\ UNCHANGED auxVars
    \/ \E h \in Handles : Drain(h) /\ UNCHANGED auxVars

Spec == Init /\ [][Next]_vars

\* ===================================================================== claims
\* No connection of user u was closed.  Every unregister case and every
\* eviction that acts closes a connection of the user whose entry it deletes,
\* so the entry of u has been written by the register case only.
RegistersOnly(u) ==
    \A h \in Handles : ID(h) = u => ~closed[h]

\* C1: a stale Unregister is a no-op.  When the unregister case acts for a
\* Client while a different Client holds the slot of its user id, the map
\* and every buffer, open or closed, stay as they were, so the newer Client
\* stays registered and reachable.
StaleUnregisterIsNoOp ==
    [][(UnregisterCS /\ Lookup(clients, ID(client)) # client)
          => UNCHANGED mapVars]_vars

\* C2: when the register case replaces a different Client registered under
\* the same user id, the replaced Client's buffer is closed by that step.
ReplacedBufferIsClosed ==
    [][(RegisterCS /\ Lookup(clients, ID(client)) \notin {None, client})
          => closed'[Lookup(clients, ID(client))]]_vars

\* C3: after Registers only, the map holds for each user id the Client that
\* was registered last, and a SendToUser for that user id with a well-formed
\* message appends its payload to that Client's buffer (which has room) and
\* changes no other buffer.
LastRegisteredIsMapped ==
    \A u \in UserIDs : RegistersOnly(u) => Lookup(clients, u) = lastReg[u]

SendReachesLastRegistered ==
    \A s \in Senders, m \in Messages :
        LET u == m.ReceiverID
        IN (/\ SendBody(s, u, m)
            /\ RegistersOnly(u)
            /\ lastReg[u] # None
            /\ ~Marshal(m).err
            /\ Len(Send[lastReg[u]]) < BufCap)
           => /\ Send' = [Send EXCEPT
                            ![lastReg[u]] = Append(@, Marshal(m).json)]
              /\ slog'[s] = "direct message sent"

MostRecentRegisterIsReachable ==
    []LastRegisteredIsMapped /\ [][SendReachesLastRegistered]_vars

\* C3 witness: hA then hB were registered for u1, nothing was unregistered
\* or evicted, and a SendToUser has put its payload on hB and not on hA.
MostRecentRegisterWitness ==
    /\ {"hA", "hB"} \subseteq registered
    /\ lastReg["u1"] = "hB"
    /\ clients["u1"] = "hB"
    /\ RegistersOnly("u1")
    /\ unregCalls = 0
    /\ \E s \in Senders : slog[s] = "direct message sent"
    /\ Send["hB"] = <<Marshal([ReceiverID |-> "u1", Content |-> "hello"]).json>>
    /\ Send["hA"] = <<>>

\* C4: when the unregister case acts for the Client that holds the slot of
\* its user id, it removes the entry and closes that Client's buffer without
\* panicking, so IsUserConnected is false afterwards; and a SendToUser to a
\* user id with no entry ends as not found and enqueues nothing.
UnregisterCurrentActs ==
    (UnregisterCS /\ Lookup(clients, ID(client)) = client)
       => /\ ~crashed'
          /\ clients' = [clients EXCEPT ![ID(client)] = None]
          /\ closed' = [closed EXCEPT ![client] = TRUE]
          /\ Send' = Send
          /\ ~IsUserConnected(clients', ID(client))

SendToAbsentUser ==
    \A s \in Senders, m \in Messages :
        (SendBody(s, m.ReceiverID, m) /\ ~IsUserConnected(clients, m.ReceiverID))
           => /\ Send' = Send
              /\ slog'[s] = "not found or offline"

UnregisterCurrentRemovesAndCloses ==
    [][UnregisterCurrentActs /\ SendToAbsentUser]_vars

\* C4 witness: hA alone was registered for u1 and unregistered, its buffer is
\* closed, u1 has no entry, and a SendToUser has since ended as not found.
UnregisterCurrentWitness ==
    /\ registered = {"hA"}
    /\ unregCalls = 1
    /\ closed["hA"]
    /\ Send["hA"] = <<>>
    /\ ~IsUserConnected(clients, "u1")
    /\ \E s \in Senders : slog[s] = "not found or offline"

\* The steps of the broadcast case other than the lookup-and-send step and
\* the eviction step.
BroadcastLockSteps ==
    \/ \E m \in Messages : RecvBroadcast(m)
    \/ BroadcastRLock
    \/ EvictLock
    \/ EvictRLock
    \/ BroadcastRUnlock

\* What SendToUser(m.ReceiverID, m) would leave of the map and the buffers.
AsSendToUser(m) ==
    <<clients, SendToUserSend(clients, Send, m.ReceiverID, m), closed>>

\* C5 as claimed: processing Broadcast(m) leaves the map and every buffer,
\* contents and open or closed, as SendToUser(m.ReceiverID, m) would: its
\* lookup-and-send step has SendToUser's effect and no other step of the
\* broadcast case changes the map or a buffer, a full buffer included.
BroadcastIsSendToUser ==
    [][/\ BroadcastBody => mapVars' = AsSendToUser(message)
       /\ (BroadcastLockSteps \/ EvictCS) => UNCHANGED mapVars]_vars

\* C5 amended: Broadcast(m) with a receiver id set leaves the map and the
\* buffers as SendToUser(m.ReceiverID, m) would when the receiver is not
\* registered, when its buffer has room and when serialization fails; when
\* the receiver's buffer is full, Broadcast goes on to close that Client's
\* buffer and delete its entry, which SendToUser never does.
BroadcastEvicts ==
    /\ (BroadcastBody /\ BroadcastLog(clients, message)
                            = "removed due to blocked channel")
          => /\ pc' = "evict_lock"
             /\ client' = Lookup(clients, message.ReceiverID)
             /\ Len(Send[client']) = BufCap
    /\ EvictCS
          => /\ clients' = [clients EXCEPT ![ID(client)] = None]
             /\ closed' = [closed EXCEPT ![client] = TRUE]
             /\ Send' = Send

BroadcastIsSendToUserUnlessFull ==
    [][/\ BroadcastBody => mapVars' = AsSendToUser(message)
       /\ BroadcastLockSteps => UNCHANGED mapVars
       /\ BroadcastEvicts]_vars

\* C5 witness: the broadcast case has found hA's buffer full and has just
\* closed it and deleted the entry of u1.
BroadcastEvictedWitness ==
    /\ pc = "evict_rlock"
    /\ message.ReceiverID = "u1"
    /\ lastReg["u1"] = "hA"
    /\ closed["hA"]
    /\ unregCalls = 0
    /\ ~IsUserConnected(clients, "u1")

\* C6: a SendToUser whose target is registered with a full, open buffer
\* returns in that step, leaves the map and every buffer unchanged, and
\* (for a well-formed message) logs the drop; the body of SendToUser never
\* has to wait.
SendToFullBuffer ==
    \A s \in Senders, m \in Messages :
        LET c == Lookup(clients, m.ReceiverID)
        IN (/\ SendBody(s, m.ReceiverID, m)
            /\ c # None
            /\ ~closed[c]
            /\ Len(Send[c]) = BufCap)
           => /\ UNCHANGED mapVars
              /\ spc'[s] = "idle"
              /\ ~crashed'
              /\ ~Marshal(m).err => slog'[s] = "channel full"

SendBodyNeverWaits ==
    \A s \in Senders :
        (spc[s] = "body" /\ ~crashed)
           => ENABLED (\E m \in Messages : SendBody(s, m.ReceiverID, m))

FullBufferDrops ==
    []SendBodyNeverWaits /\ [][SendToFullBuffer]_vars

\* C6 witness: a SendToUser to u1 has ended with the drop line while u1's
\* registered Client still holds BufCap payloads in an open buffer.
FullBufferDropWitness ==
    /\ \E s \in Senders : slog[s] = "channel full"
    /\ IsUserConnected(clients, "u1")
    /\ ~closed[clients["u1"]]
    /\ Len(Send[clients["u1"]]) = BufCap
    /\ Lookup(clients, "u2") = None

\* C7: no sequence of Register, Unregister, Broadcast and SendToUser makes
\* the registry panic: a close that reaches an already closed buffer is a
\* no-op.
SecondCloseIsSafe == ~crashed

\* C8: a serialization failure, in SendToUser or in the broadcast case,
\* enqueues nothing, leaves the map unchanged and releases the read lock the
\* path holds.
MarshalErrorIsADrop ==
    [][/\ \A s \in Senders, m \in Messages :
             (SendBody(s, m.ReceiverID, m)
                 /\ SendToUserLog(clients, m.ReceiverID, m) = "error marshaling")
                => (UNCHANGED mapVars /\ readers' = readers - 1)
       /\ (BroadcastBody /\ BroadcastLog(clients, message) = "error marshaling")
                => (UNCHANGED mapVars /\ readers' = readers - 1)]_vars

\* C9: a SendToUser of a well-formed message to a user id with no entry ends
\* as not found without panic, enqueues nothing and leaves the map
\* unchanged.
SendToUnregisteredUser ==
    [][\A s \in Senders, m \in Messages :
          (/\ SendBody(s, m.ReceiverID, m)
           /\ Lookup(clients, m.ReceiverID) = None
           /\ ~Marshal(m).err)
             => /\ slog'[s] = "not found or offline"
                /\ spc'[s] = "idle"
                /\ crashed' = crashed
                /\ UNCHANGED mapVars]_vars

\* C9 witness: u2 was never registered while u1 is, with payloads queued,
\* and a SendToUser has ended as not found.
SendToUnregisteredWitness ==
    /\ \E s \in Senders : slog[s] = "not found or offline"
    /\ "hC" \notin registered
    /\ "hC" \notin register
    /\ IsUserConnected(clients, "u1")
    /\ Send[clients["u1"]] # <<>>

\* C10: every SendToUser call returns.  A caller that waits in RLock waits
\* for something that can still move: the lock is free for it, or the loop
\* can take a step, or another caller is in its body.
SendToUserReturns ==
    \A s \in Senders :
        (spc[s] = "rlock" /\ ~crashed)
           => \/ ENABLED SendRLock(s)
              \/ ENABLED Loop
              \/ \E t \in Senders : spc[t] = "body"

\* Sequence p is an initial part of sequence q.
IsPrefix(p, q) ==
    Len(p) <= Len(q) /\ SubSeq(q, 1, Len(p)) = p

\* C11: no buffer ever holds more than BufCap payloads.  A SendToUser never
\* displaces a payload a buffer already retains, so with no drain the first
\* BufCap sent are the ones kept; one whose target is registered with an
\* open buffer that is full changes no buffer, returns with its read lock
\* released and does not panic.
BufferWithinCapacity ==
    \A h \in Handles : Len(Send[h]) <= BufCap

OverflowKeepsFirst ==
    \A s \in Senders, m \in Messages :
        LET c == Lookup(clients, m.ReceiverID)
        IN SendBody(s, m.ReceiverID, m)
             => /\ \A h \in Handles : IsPrefix(Send[h], Send'[h])
                /\ (c # None /\ ~closed[c] /\ Len(Send[c]) = BufCap)
                      => /\ Send' = Send
                         /\ spc'[s] = "idle"
                         /\ readers' = readers - 1
                         /\ crashed' = crashed

NoBufferExceedsCapacity ==
    []BufferWithinCapacity /\ [][OverflowKeepsFirst]_vars

\* C11 witness: hA alone was registered, nothing was unregistered, evicted
\* or drained away, its buffer holds BufCap payloads and a further
\* SendToUser has returned with the drop line; the loop is at its select.
OverflowWitness ==
    /\ registered = {"hA"}
    /\ unregCalls = 0
    /\ ~closed["hA"]
    /\ clients["u1"] = "hA"
    /\ Len(Send["hA"]) = BufCap
    /\ \E s \in Senders : slog[s] = "channel full" /\ spc[s] = "idle"
    /\ pc = "select"
    /\ readers = 0
    /\ ~crashed

\* =========================================================== ordering runs
\* One caller sends two different well-formed messages to u1, in any order
\* and number, while the connections of u1 register (none unregisters) and
\* their owners drain the buffers at any pace.  The caller records each
\* payload a call reported sent, the owner each payload it took.
OrderHandles == {"hA", "hB"}

OrderMessages ==
    { [ReceiverID |-> "u1", Content |-> "hello"],
      [ReceiverID |-> "u1", Content |-> "bye"] }

\* The caller starts a SendToUser call.
OrderCall(s) ==
    /\ CallSendToUser(s)
    /\ \A h \in Handles : Len(accepted[h]) < MaxOrderSends
    /\ UNCHANGED auxVars

\* The body of SendToUser(m.ReceiverID, m), recorded by its caller.
OrderSendBody(s, m) ==
    /\ SendBody(s, m.ReceiverID, m)
    /\ accepted' =
          IF SendToUserLog(clients, m.ReceiverID, m) = "direct message sent"
          THEN [accepted EXCEPT ![Lookup(clients, m.ReceiverID)] =
                                    Append(@, Marshal(m).json)]
          ELSE accepted
    /\ UNCHANGED <<received, lastOp, queryVars, requestVars, outsideVars>>

\* A receive from client.Send, recorded by the owner of the connection.
OrderDrain(h) ==
    /\ Drain(h)
    /\ received' = [received EXCEPT ![h] = Append(@, Head(Send[h]))]
    /\ UNCHANGED <<accepted, lastOp, queryVars, requestVars, outsideVars>>

NextOrder ==
    \/ \E h \in OrderHandles : RegisterClient(h) /\ UNCHANGED auxVars
    \/ \E h \in OrderHandles : RecvRegister(h) /\ UNCHANGED auxVars
    \/ RegisterLock /\ UNCHANGED auxVars
    \/ RegisterCS /\ UNCHANGED auxVars
    \/ \E s \in Senders : OrderCall(s)
    \/ \E s \in Senders : SendRLock(s) /\ UNCHANGED auxVars
    \/ \E s \in Senders, m \in OrderMessages : OrderSendBody(s, m)
    \/ \E h \in OrderHandles : OrderDrain(h)

SpecOrder == Init /\ [][NextOrder]_vars

\* C12: the payloads of one caller's SendToUser calls to a user reach the
\* buffer in call order: at every moment what the owner has taken so far,
\* followed by what the buffer holds, is the sequence of payloads the calls
\* reported sent, in the order of the calls.  With no drain the buffer holds
\* m1..mN itself; with a drain the payloads are dequeued in send order.
SendOrderIsKept ==
    \A h \in Handles : received[h] \o Send[h] = accepted[h]

\* C12 witness: hello, bye, bye were reported sent to hA in that order, the
\* owner has taken hello and the buffer holds bye, bye.
SendOrderWitness ==
    LET hello == Marshal([ReceiverID |-> "u1", Content |-> "hello"]).json
        bye == Marshal([ReceiverID |-> "u1", Content |-> "bye"]).json
    IN /\ accepted["hA"] = <<hello, bye, bye>>
       /\ received["hA"] = <<hello>>
       /\ Send["hA"] = <<bye, bye>>

\* ===================================================== disjoint user ids
\* One connection per user id: hA for u1, hC for u2.  Their RegisterClient
\* calls, their Unregister requests and SendToUser calls for either user id
\* run concurrently; there is no Broadcast.  lastOp records, per user id,
\* the structural request the loop finished last.
DisjointHandles == {"hA", "hC"}

\* The register case finishes Register(client).
TrackedRegisterCS ==
    /\ RegisterCS
    /\ lastOp' = [lastOp EXCEPT ![ID(client)] = "register"]
    /\ UNCHANGED untrackedVars

\* The unregister case receives Unregister(h); it is finished at once when
\* the test of m.clients[client.ID] fails.
TrackedRecvUnregister(h) ==
    /\ RecvUnregister(h)
    /\ lastOp' = IF UnregisterFound(clients, h)
                 THEN lastOp
                 ELSE [lastOp EXCEPT ![ID(h)] = "unregister"]
    /\ UNCHANGED untrackedVars

\* The unregister case finishes Unregister(client).
TrackedUnregisterCS ==
    /\ UnregisterCS
    /\ lastOp' = [lastOp EXCEPT ![ID(client)] = "unregister"]
    /\ UNCHANGED untrackedVars

NextDisjoint ==
    \/ \E h \in DisjointHandles : RegisterClient(h) /\ UNCHANGED auxVars
    \/ \E h \in DisjointHandles : RecvRegister(h) /\ UNCHANGED auxVars
    \/ RegisterLock /\ UNCHANGED auxVars
    \/ TrackedRegisterCS
    \/ \E h \in DisjointHandles : TrackedRecvUnregister(h)
    \/ UnregisterLock /\ UNCHANGED auxVars
    \/ TrackedUnregisterCS
    \/ \E s \in Senders : CallSendToUser(s) /\ UNCHANGED auxVars
    \/ \E s \in Senders : SendRLock(s) /\ UNCHANGED auxVars
    \/ \E s \in Senders, m \in Messages :
          SendBody(s, m.ReceiverID, m) /\ UNCHANGED auxVars
    \/ \E h \in DisjointHandles : Drain(h) /\ UNCHANGED auxVars

SpecDisjoint == Init /\ [][NextDisjoint]_vars

\* C13: with one connection per user id and Register, Unregister and
\* SendToUser running concurrently, the map holds for each user id what the
\* structural request finished last for it dictates: its connection, open,
\* after a Register, no entry after an Unregister, no entry before any; and
\* a request for one user id changes neither the entry nor a buffer (its
\* contents, open or closed) of another user id.
LastOpDecides ==
    \A u \in UserIDs :
        /\ lastOp[u] = "register"
              => /\ Lookup(clients, u) \in DisjointHandles
                 /\ ID(Lookup(clients, u)) = u
                 /\ ~closed[Lookup(clients, u)]
        /\ lastOp[u] \in {"unregister", None} => Lookup(clients, u) = None

\* The step changes at most the entry and the buffers of user id u.
TouchesOnly(u) ==
    /\ \A v \in UserIDs \ {u} : clients'[v] = clients[v]
    /\ \A h \in Handles :
          ID(h) # u => (Send'[h] = Send[h] /\ closed'[h] = closed[h])

OtherUsersUntouched ==
    /\ RegisterCS => TouchesOnly(ID(client))
    /\ UnregisterCS => TouchesOnly(ID(client))
    /\ \A h \in Handles : RecvUnregister(h) => UNCHANGED mapVars
    /\ \A s \in Senders, m \in Messages :
          SendBody(s, m.ReceiverID, m)
             => (TouchesOnly(m.ReceiverID) /\ UNCHANGED <<clients, closed>>)

DisjointUsersAreIndependent ==
    []LastOpDecides /\ [][OtherUsersUntouched]_vars

\* C13 witness: u1's connection was registered and then unregistered while
\* u2's connection is registered with a payload queued; a SendToUser has
\* run since.
DisjointUsersWitness ==
    /\ lastOp["u1"] = "unregister"
    /\ lastOp["u2"] = "register"
    /\ closed["hA"]
    /\ Lookup(clients, "u1") = None
    /\ Lookup(clients, "u2") = "hC"
    /\ Send["hC"] # <<>>
    /\ \E s \in Senders : slog[s] # None

\* ================================================================== results
\* The outcome a log line stands for.
Outcome(l) ==
    CASE l = "direct message sent" -> "delivered"
      [] l = "not found or offline" -> "not-connected"
      [] l \in {"channel full", "error marshaling"} -> "dropped"
      [] OTHER -> "panic"

\* C14: SendToUser surfaces to its caller, as a result value, which of
\* delivered, not-connected and dropped occurred: two calls that would end
\* with different outcomes in a state hand different values back, so that
\* dropped is told from not-connected.
ResultTellsOutcome ==
    \A m1, m2 \in Messages :
        Outcome(SendToUserLog(clients, m1.ReceiverID, m1))
            # Outcome(SendToUserLog(clients, m2.ReceiverID, m2))
          => SendToUserResult(clients, m1.ReceiverID, m1)
               # SendToUserResult(clients, m2.ReceiverID, m2)

\* ========================================================= read operations
\* The registry with its structural requests recorded in lastOp, well-formed
\* messages for u1, and nobody draining the buffers, so that the buffers of
\* u1 fill up and the broadcast case evicts.
QueryMessages ==
    {m \in Messages : m.ReceiverID = "u1" /\ ~Marshal(m).err}

\* The user ids IsUserConnected is asked about.
QueryUserIDs == {"u1", "u2"}

\* The eviction of the broadcast case removes client.
TrackedEvictCS ==
    /\ EvictCS
    /\ lastOp' = IF closed[client]
                 THEN lastOp
                 ELSE [lastOp EXCEPT ![ID(client)] = "evicted"]
    /\ UNCHANGED untrackedVars

TrackedRegistry ==
    \/ \E h \in Handles : RegisterClient(h) /\ UNCHANGED auxVars
    \/ \E h \in Handles : RecvRegister(h) /\ UNCHANGED auxVars
    \/ RegisterLock /\ UNCHANGED auxVars
    \/ TrackedRegisterCS
    \/ \E h \in Handles : TrackedRecvUnregister(h)
    \/ UnregisterLock /\ UNCHANGED auxVars
    \/ TrackedUnregisterCS
    \/ \E m \in QueryMessages : RecvBroadcast(m) /\ UNCHANGED auxVars
    \/ BroadcastRLock /\ UNCHANGED auxVars
    \/ BroadcastBody /\ UNCHANGED auxVars
    \/ EvictLock /\ UNCHANGED auxVars
    \/ TrackedEvictCS
    \/ EvictRLock /\ UNCHANGED auxVars
    \/ BroadcastRUnlock /\ UNCHANGED auxVars
    \/ \E s \in Senders : CallSendToUser(s) /\ UNCHANGED auxVars
    \/ \E s \in Senders : SendRLock(s) /\ UNCHANGED auxVars
    \/ \E s \in Senders, m \in QueryMessages :
          SendBody(s, m.ReceiverID, m) /\ UNCHANGED auxVars
    \/ \E s \in Senders : CallRead(s) /\ UNCHANGED auxVars
    \/ \E s \in Senders : ReadRLock(s) /\ UNCHANGED auxVars

NextList ==
    \/ TrackedRegistry
    \/ \E s \in Senders : GetConnectedUsersBody(s)

SpecList == Init /\ [][NextList]_vars

NextConnected ==
    \/ TrackedRegistry
    \/ \E s \in Senders, u \in QueryUserIDs : IsUserConnectedBody(s, u)

SpecConnected == Init /\ [][NextConnected]_vars

\* The elements of sequence q.
Range(q) == {q[i] : i \in 1..Len(q)}

\* C15: GetConnectedUsers hands back exactly the user ids that have an entry
\* in the map when its body runs, each exactly once (a user id registered
\* twice appears once); and no later step of the registry changes a slice
\* that was handed back.
ListIsSnapshot ==
    /\ \A s \in Senders :
          GetConnectedUsersBody(s)
             => /\ Range(qusers') = {u \in UserIDs : Lookup(clients, u) # None}
                /\ Len(qusers') = Cardinality(Range(qusers'))
                /\ Range(qusers') = {u \in UserIDs : lastOp[u] = "register"}
    /\ (\A s \in Senders : ~GetConnectedUsersBody(s)) => qusers' = qusers

ListConnectedUsersIsExact == [][ListIsSnapshot]_vars

\* C15 witness: both connections of u1 and the one of u2 were registered, a
\* GetConnectedUsers call returned u1 and u2 once each, and u1's entry was
\* removed after that.
ListConnectedUsersWitness ==
    /\ Len(qusers) = 2
    /\ Range(qusers) = {"u1", "u2"}
    /\ registered = Handles
    /\ Lookup(clients, "u1") = None
    /\ lastOp["u1"] # "register"

\* C16: IsUserConnected(u) returns true exactly when the map holds an entry
\* for u when its body runs: true when the structural request finished last
\* for u is a Register, false when none was or when the last one is an
\* Unregister or an overflow eviction.
ConnectedIsPresence ==
    \A s \in Senders, u \in UserIDs :
        IsUserConnectedBody(s, u)
           => /\ qconn'.u = u
              /\ qconn'.ok = (Lookup(clients, u) # None)
              /\ qconn'.ok = (lastOp[u] = "register")

IsConnectedIsExact == [][ConnectedIsPresence]_vars

\* C16 witness: a connection of u1 was registered, the broadcast case evicted
\* it on overflow, and IsUserConnected("u1") has since returned false.
IsConnectedWitness ==
    /\ qconn = [u |-> "u1", ok |-> FALSE]
    /\ lastOp["u1"] = "evicted"
    /\ lastReg["u1"] # None
    /\ closed[lastReg["u1"]]

\* ================================================================ singleton
\* globalManager, managerOnce, NewManager and GetManager, from program start.
\* Callers call NewManager or GetManager, again and again, concurrently.
besidesSingleton ==
    <<registryVars, orderVars, queryVars, requestVars, lastOp, authVars>>

\* Mutant of OnceMayRun: Do has no mutex, a caller that arrives while the
\* function is running runs it too.
OnceMayRunUnlocked(st) == st # "done"

\* sync.Once.Do runs its function for a caller that finds it neither done
\* nor running; a caller that finds it running waits, one that finds it
\* done returns at once.
OnceMayRun(st) == st = "new"

\* A goroutine calls NewManager: up to managerOnce.Do
CallNewManager(c) ==
    /\ cpc[c].at \in {"idle", "done"}
    /\ cpc' = [cpc EXCEPT ![c] = [fn |-> "NewManager", at |-> "once"]]
    /\ UNCHANGED <<globalManager, managerOnce, made, loops, cret,
                   besidesSingleton>>

\* A goroutine calls GetManager: up to the test globalManager == nil
CallGetManager(c) ==
    /\ cpc[c].at \in {"idle", "done"}
    /\ cpc' = [cpc EXCEPT ![c] = [fn |-> "GetManager", at |-> "read"]]
    /\ UNCHANGED <<globalManager, managerOnce, made, loops, cret,
                   besidesSingleton>>

\* What the read of globalManager in GetManager's test can yield.  It is
\* ordered with the write inside Do by nothing, so it yields what the
\* variable holds or still nil.
RacyRead == {None, globalManager}

\* if globalManager == nil { NewManager() }: the test
GetManagerRead(c) ==
    /\ cpc[c] = [fn |-> "GetManager", at |-> "read"]
    /\ \E seen \in RacyRead :
          cpc' = [cpc EXCEPT ![c].at = IF seen = None THEN "once" ELSE "ret"]
    /\ UNCHANGED <<globalManager, managerOnce, made, loops, cret,
                   besidesSingleton>>

\* managerOnce.Do(func() {...}): the caller runs the function, or returns
\* because it was run; it waits while another caller runs it.
OnceDo(c) ==
    /\ cpc[c].at = "once"
    /\ \/ /\ OnceMayRun(managerOnce)
          /\ managerOnce' = "running"
          /\ cpc' = [cpc EXCEPT ![c].at = "alloc"]
       \/ /\ managerOnce = "done"
          /\ cpc' = [cpc EXCEPT ![c].at = "ret"]
          /\ UNCHANGED managerOnce
    /\ UNCHANGED <<globalManager, made, loops, cret, besidesSingleton>>

\* globalManager = &Manager{...}
OnceAlloc(c) ==
    /\ cpc[c].at = "alloc"
    /\ LET m == CHOOSE x \in Managers : x \notin made
       IN /\ globalManager' = m
          /\ made' = made \cup {m}
    /\ cpc' = [cpc EXCEPT ![c].at = "go"]
    /\ UNCHANGED <<managerOnce, loops, cret, besidesSingleton>>

\* go globalManager.Start(), and Do marks the Once done
OnceGo(c) ==
    /\ cpc[c].at = "go"
    /\ loops' = loops + 1
    /\ managerOnce' = "done"
    /\ cpc' = [cpc EXCEPT ![c].at = "ret"]
    /\ UNCHANGED <<globalManager, made, cret, besidesSingleton>>

\* return globalManager.  In NewManager, and in GetManager after its call of
\* NewManager, the read follows Do; in GetManager after a test that saw the
\* Manager it follows that read of the same variable.
ManagerReturn(c) ==
    /\ cpc[c].at = "ret"
    /\ cret' = [cret EXCEPT ![c] = globalManager]
    /\ cpc' = [cpc EXCEPT ![c].at = "done"]
    /\ UNCHANGED <<globalManager, managerOnce, made, loops,
                   besidesSingleton>>

NextSingleton ==
    \/ \E c \in Callers : CallNewManager(c)
    \/ \E c \in Callers : CallGetManager(c)
    \/ \E c \in Callers : GetManagerRead(c)
    \/ \E c \in Callers : OnceDo(c)
    \/ \E c \in Callers : OnceAlloc(c)
    \/ \E c \in Callers : OnceGo(c)
    \/ \E c \in Callers : ManagerReturn(c)

InitSingleton ==
    /\ RegistryInit
    /\ ObserverInit
    /\ SingletonInit
    /\ AuthIdle

SpecSingleton == InitSingleton /\ [][NextSingleton]_vars

\* C17: however the calls of NewManager and GetManager interleave, first use
\* included, at most one Manager is ever allocated and at most one loop
\* started; every call that has returned returned that one Manager, and a
\* NewManager call that has returned finds the loop started, exactly one.
OneManager ==
    /\ Cardinality(made) <= 1
    /\ loops <= 1
    /\ managerOnce = "done" => loops = 1
    /\ \A c \in Callers :
          cpc[c].at = "done"
             => /\ cret[c] # None
                /\ made = {cret[c]}
                /\ cret[c] = globalManager
                /\ cpc[c].fn = "NewManager" => loops = 1

\* C17 witness: a NewManager call and two GetManager calls by three
\* goroutines have returned, all three the same Manager, and one loop is
\* running.
OneManagerWitness ==
    /\ cpc["c1"] = [fn |-> "NewManager", at |-> "done"]
    /\ cpc["c2"] = [fn |-> "GetManager", at |-> "done"]
    /\ cpc["c3"] = [fn |-> "GetManager", at |-> "done"]
    /\ cret["c1"] = cret["c2"]
    /\ cret["c2"] = cret["c3"]
    /\ cret["c1"] # None
    /\ loops = 1

\* ============================================================ JWTMiddleware
\* http.StatusUnauthorized, http.StatusBadRequest
StatusUnauthorized == 401
StatusBadRequest == 400

\* A string is the sequence of its pieces: words and single spaces.
Space == " "

\* Token strings, told apart by what jwt.Parse with the gateway's secret
\* makes of them.
Tokens ==
    {"tGood", "tNoRole", "tEmptyId", "tNumId", "tNoId", "tBadSig",
     "tExpired", "tNotValid"}

\* A claim of a given JSON type, or no such claim.
StringClaim(v) == [type |-> "string", val |-> v]
NumberClaim(v) == [type |-> "number", val |-> v]
NoClaim == [type |-> "absent", val |-> None]

\* jwt.Parse(tokenString, keyFunc) for each token: the error, token.Valid
\* and the claims user_id and role.
TokenInfo(t) ==
    CASE t = "tGood" ->
           [err |-> FALSE, valid |-> TRUE, user_id |-> StringClaim("u1"),
            role |-> StringClaim("employer")]
      [] t = "tNoRole" ->
           [err |-> FALSE, valid |-> TRUE, user_id |-> StringClaim("u2"),
            role |-> NoClaim]
      [] t = "tEmptyId" ->
           [err |-> FALSE, valid |-> TRUE, user_id |-> StringClaim(""),
            role |-> StringClaim("candidate")]
      [] t = "tNumId" ->
           [err |-> FALSE, valid |-> TRUE, user_id |-> NumberClaim("42"),
            role |-> StringClaim("candidate")]
      [] t = "tNoId" ->
           [err |-> FALSE, valid |-> TRUE, user_id |-> NoClaim,
            role |-> StringClaim("candidate")]
      [] t = "tNotValid" ->
           [err |-> FALSE, valid |-> FALSE, user_id |-> StringClaim("u1"),
            role |-> NoClaim]
      [] OTHER ->
           [err |-> TRUE, valid |-> FALSE, user_id |-> NoClaim,
            role |-> NoClaim]

\* jwt.Parse of a string: one that is no token at all is an error.
Parse(str) ==
    IF Len(str) = 1 /\ str[1] \in Tokens
    THEN TokenInfo(str[1])
    ELSE [err |-> TRUE, valid |-> FALSE, user_id |-> NoClaim,
          role |-> NoClaim]

\* strings.Split(str, " ")
RECURSIVE Split(_)
Split(str) ==
    IF \A i \in 1..Len(str) : str[i] # Space
    THEN <<str>>
    ELSE LET i == CHOOSE k \in 1..Len(str) :
                      str[k] = Space /\ \A j \in 1..(k - 1) : str[j] # Space
         IN <<SubSeq(str, 1, i - 1)>> \o Split(SubSeq(str, i + 1, Len(str)))

\* Values of the Authorization header ("" when the header is missing).
Headers ==
    {<<"Bearer", Space, t>> : t \in Tokens}
      \cup { <<>>,
             <<"Bearer">>,
             <<"Bearer", Space>>,
             <<"tGood">>,
             <<"bearer", Space, "tGood">>,
             <<"Basic", Space, "tGood">>,
             <<"Bearer", Space, Space, "tGood">>,
             <<"Bearer", Space, "tGood", Space, "tGood">> }

\* Handlers registered behind JWTMiddleware: the chat and notification
\* handlers that read the user id, and PostJob of the job routes.
ChatRoutes ==
    {"SendMessage", "GetMessages", "BroadcastMessage", "GetConversations",
     "GetNotifications", "MarkAllNotificationsAsRead"}
Routes == ChatRoutes \cup {"PostJob"}

\* Whether the request body binds (c.ShouldBindJSON).
Bodies == {"binds", "malformed"}

Requests == [header : Headers, route : Routes, body : Bodies]

\* A response of AbortWithStatusJSON(http.StatusUnauthorized, ...)
Abort(msg) ==
    [status |-> StatusUnauthorized, error |-> msg,
     keys |-> [k \in ContextKeys |-> None], next |-> FALSE]

\* Mutant of JWTMiddlewareResult: parts[0] is not compared with "Bearer".
JWTMiddlewareResultAnyScheme(header) ==
    LET parts == Split(header)
        token == Parse(parts[2])
    IN IF header = <<>> THEN Abort("Missing authorization header")
       ELSE IF Len(parts) # 2
       THEN Abort("Authorization header must be in format 'Bearer {token}'")
       ELSE IF token.err THEN Abort("Invalid token: error")
       ELSE IF ~token.valid THEN Abort("Invalid token")
       ELSE IF token.user_id.type # "string"
       THEN Abort("User ID not found in token")
       ELSE [status |-> NoStatus, error |-> None, next |-> TRUE,
             keys |-> [k \in ContextKeys |->
                         IF k = "user_id" THEN token.user_id.val
                         ELSE IF k = "user_role" /\ token.role.type = "string"
                         THEN token.role.val
                         ELSE None]]

\* The function JWTMiddleware returns, for a request with this Authorization
\* header: the response it aborts with, or the keys it sets before c.Next().
\* (The claims of a token jwt.Parse returns are jwt.MapClaims.)
JWTMiddlewareResult(header) ==
    LET parts == Split(header)
        token == Parse(parts[2])
    IN IF header = <<>> THEN Abort("Missing authorization header")
       ELSE IF Len(parts) # 2 \/ parts[1] # <<"Bearer">>
       THEN Abort("Authorization header must be in format 'Bearer {token}'")
       ELSE IF token.err THEN Abort("Invalid token: error")
       ELSE IF ~token.valid THEN Abort("Invalid token")
       ELSE IF token.user_id.type # "string"
       THEN Abort("User ID not found in token")
       ELSE [status |-> NoStatus, error |-> None, next |-> TRUE,
             keys |-> [k \in ContextKeys |->
                         IF k = "user_id" THEN token.user_id.val
                         ELSE IF k = "user_role" /\ token.role.type = "string"
                         THEN token.role.val
                         ELSE None]]

\* The key a handler reads the user id from with c.Get.
HandlerKey(route) == IF route \in ChatRoutes THEN "userID" ELSE "user_id"

\* Handlers that bind the JSON body before they read the user id.
BindsFirst == {"SendMessage", "BroadcastMessage"}

\* What a handler answers up to its check of the user id; past the check it
\* goes on to its gRPC call.
HandlerResult(req, keys) ==
    IF req.route \in BindsFirst /\ req.body = "malformed"
    THEN [status |-> StatusBadRequest, error |-> "bind error"]
    ELSE IF keys[HandlerKey(req.route)] = None
    THEN [status |-> StatusUnauthorized,
          error |-> IF req.route \in ChatRoutes
                    THEN "User not authenticated"
                    ELSE "User ID not found in context"]
    ELSE [status |-> NoStatus, error |-> None]

besidesAuth ==
    <<registryVars, orderVars, queryVars, requestVars, lastOp, singletonVars>>

\* The middleware function runs for the request.
JWTMiddleware ==
    /\ stage = "received"
    /\ LET r == JWTMiddlewareResult(httpReq.header)
       IN /\ ctxKeys' = r.keys
          /\ httpStatus' = r.status
          /\ httpError' = r.error
          /\ stage' = IF r.next THEN "next" ELSE "aborted"
    /\ UNCHANGED <<httpReq, besidesAuth>>

\* c.Next(): the handler of the route runs.
Handler ==
    /\ stage = "next"
    /\ LET r == HandlerResult(httpReq, ctxKeys)
       IN /\ httpStatus' = r.status
          /\ httpError' = r.error
    /\ stage' = "handled"
    /\ UNCHANGED <<httpReq, ctxKeys, besidesAuth>>

InitAuth ==
    /\ RegistryInit
    /\ ObserverInit
    /\ SingletonDone
    /\ httpReq \in Requests
    /\ ctxKeys = [k \in ContextKeys |-> None]
    /\ httpStatus = NoStatus
    /\ httpError = None
    /\ stage = "received"

NextAuth ==
    \/ JWTMiddleware
    \/ Handler

SpecAuth == InitAuth /\ [][NextAuth]_vars

\* The request carries 'Bearer <token>' with a token that validates and
\* whose claims carry a string user_id.
Authentic(req) ==
    \E t \in Tokens :
        /\ req.header = <<"Bearer", Space, t>>
        /\ ~TokenInfo(t).err
        /\ TokenInfo(t).valid
        /\ TokenInfo(t).user_id.type = "string"

\* C18: a request on a guarded route has its handler run only if it is
\* authentic; one that is not is answered 401 by the middleware and its
\* handler never runs.
OnlyAuthenticReachHandler ==
    /\ stage \in {"next", "handled"} => Authentic(httpReq)
    /\ (stage # "received" /\ ~Authentic(httpReq))
          => /\ stage = "aborted"
             /\ httpStatus = StatusUnauthorized
             /\ ~ENABLED Handler

\* C18 witness: a request with 'Bearer <token>', the token valid with a
\* string user_id and no role, has passed the middleware and its handler
\* has run past the check of the user id.
AuthenticHandledWitness ==
    /\ stage = "handled"
    /\ httpReq.header = <<"Bearer", Space, "tNoRole">>
    /\ httpReq.route = "PostJob"
    /\ httpError = None

\* C19: for every request that passes JWTMiddleware the user id is in the
\* context under the key its handler reads, so no handler of a passed
\* request answers 'User not authenticated'.
UserIDReachesHandler ==
    /\ stage = "next" => ctxKeys[HandlerKey(httpReq.route)] # None
    /\ stage = "handled" => httpError # "User not authenticated"

\* ================================================== the unregister case
\* C20: between the unregister case's test of m.clients[client.ID] and its
\* delete and close, no Register, Unregister or eviction changes the map or
\* opens or closes a buffer: the entry the test found is still there when
\* the delete runs, whatever callers and connection owners do meanwhile.
UnregisterSlotIsStable ==
    pc \in {"unreg_lock", "unreg_cs"}
       => /\ UnregisterFound(clients, client)
          /\ UnregisterCS \/ UNCHANGED <<clients, closed>>

UnregisterCheckAndActAreAtomic == [][UnregisterSlotIsStable]_vars

\* C20 witness: the unregister case has tested the entry of u1 and waits for
\* the write lock while a SendToUser body holds the read lock and another
\* connection of u1 is waiting to be registered.
UnregisterAtomicWitness ==
    /\ pc = "unreg_lock"
    /\ ID(client) = "u1"
    /\ \E s \in Senders : spc[s] = "body"
    /\ \E h \in register : ID(h) = "u1"

\* ============================================= all callers of the registry
\* Two connections of u1 register and unregister, Broadcasts and SendToUser
\* calls for u1 run (some with a Message json.Marshal refuses), nobody drains
\* the buffers, and the caller goroutine also calls GetConnectedUsers and
\* IsUserConnected.
ReadHandles == {"hA", "hB"}

ReadMessages == {m \in Messages : m.ReceiverID = "u1"}

NextReads ==
    \/ \E h \in ReadHandles : RegisterClient(h) /\ UNCHANGED auxVars
    \/ \E h \in ReadHandles : RecvRegister(h) /\ UNCHANGED auxVars
    \/ RegisterLock /\ UNCHANGED auxVars
    \/ RegisterCS /\ UNCHANGED auxVars
    \/ \E h \in ReadHandles : RecvUnregister(h) /\ UNCHANGED auxVars
    \/ UnregisterLock /\ UNCHANGED auxVars
    \/ UnregisterCS /\ UNCHANGED auxVars
    \/ \E m \in ReadMessages : RecvBroadcast(m) /\ UNCHANGED auxVars
    \/ BroadcastRLock /\ UNCHANGED auxVars
    \/ BroadcastBody /\ UNCHANGED auxVars
    \/ EvictLock /\ UNCHANGED auxVars
    \/ EvictCS /\ UNCHANGED auxVars
    \/ EvictRLock /\ UNCHANGED auxVars
    \/ BroadcastRUnlock /\ UNCHANGED auxVars
    \/ \E s \in Senders : CallSendToUser(s) /\ UNCHANGED auxVars
    \/ \E s \in Senders : SendRLock(s) /\ UNCHANGED auxVars
    \/ \E s \in Senders, m \in ReadMessages :
          SendBody(s, m.ReceiverID, m) /\ UNCHANGED auxVars
    \/ \E s \in Senders : CallRead(s) /\ UNCHANGED auxVars
    \/ \E s \in Senders : ReadRLock(s) /\ UNCHANGED auxVars
    \/ \E s \in Senders : GetConnectedUsersBody(s)
    \/ \E s \in Senders, u \in QueryUserIDs : IsUserConnectedBody(s, u)

SpecReads == Init /\ [][NextReads]_vars

\* The step is the write-locked part of the register case or of the
\* unregister case.
RegisterOrUnregisterStep == pc \in {"reg_cs", "unreg_cs"}

\* The step is the write-locked part of the broadcast case's default case:
\* the buffer of the receiver's Client was full.
OverflowEvictionStep ==
    /\ pc = "evict_cs"
    /\ Lookup(clients, message.ReceiverID) = client
    /\ Len(Send[client]) = BufCap

\* The step is the body of SendToUser, GetConnectedUsers or IsUserConnected.
CallerBodyStep ==
    \E s \in Senders : spc[s] \in {"body", "q_body"} /\ spc'[s] = "idle"

\* C21 as stated: the map changes only when a Register or an Unregister is
\* processed; SendToUser, Broadcast, GetConnectedUsers and IsUserConnected
\* leave it unchanged in every case, a full target buffer included.
OnlyRegisterAndUnregisterWriteMap ==
    [][clients' # clients => RegisterOrUnregisterStep]_vars

\* C21 amended: the map changes only when a Register or an Unregister is
\* processed or when a Broadcast finds the buffer of its receiver full and
\* evicts; SendToUser (full buffer included), GetConnectedUsers and
\* IsUserConnected leave it unchanged in every case, and so does a Broadcast
\* whose receiver is absent or whose buffer has room.
MapWrittenBy ==
    /\ clients' # clients => RegisterOrUnregisterStep \/ OverflowEvictionStep
    /\ CallerBodyStep => clients' = clients
    /\ pc \in {"bc_rlock", "bc_body", "bc_runlock", "evict_lock",
               "evict_rlock"} => clients' = clients

OnlyStructuralRequestsWriteMap == [][MapWrittenBy]_vars

\* C21 witness: SendToUser found the buffer of hA full and left hA in the
\* map, a Broadcast then evicted hA, and IsUserConnected("u1") answered
\* false with no Unregister ever sent.
MapWriteWitness ==
    /\ \E s \in Senders : slog[s] = "channel full" /\ spc[s] = "idle"
    /\ qconn = [u |-> "u1", ok |-> FALSE]
    /\ lastReg["u1"] = "hA"
    /\ closed["hA"]
    /\ unregCalls = 0

\* A SendToUser, GetConnectedUsers or IsUserConnected caller is in its body,
\* between its m.mutex.RLock() and its deferred m.mutex.RUnlock().
CallerHoldsReadLock == \E s \in Senders : spc[s] \in {"body", "q_body"}

\* The loop is between an m.mutex.Lock() and its m.mutex.Unlock().
LoopHoldsWriteLock == writer /\ pc \in {"reg_cs", "unreg_cs", "evict_cs"}

\* A step that inserts into or deletes from the map or closes a buffer is a
\* step of the loop's write-locked sections, taken with no read lock held.
WriteIsExclusive ==
    clients' # clients \/ closed' # closed
       => LoopHoldsWriteLock /\ readers = 0 /\ ~CallerHoldsReadLock

\* C22: every insertion into and deletion from the map and every close of a
\* buffer is a step of the coordination loop holding the write lock, and
\* while the write lock is held no SendToUser, GetConnectedUsers or
\* IsUserConnected caller holds the read lock.
WritesNeverOverlapReaders ==
    /\ [](writer => LoopHoldsWriteLock /\ readers = 0 /\ ~CallerHoldsReadLock)
    /\ [][WriteIsExclusive]_vars

\* C22 witness: the loop holds the write lock to evict hB while a caller of
\* a read operation waits for the read lock; hA was closed by an earlier
\* unregister case.
WriteLockWitness ==
    /\ pc = "evict_cs"
    /\ writer
    /\ client = "hB"
    /\ closed["hA"]
    /\ \E s \in Senders : spc[s] = "q_rlock"

\* ===================================================== open mapped buffers
\* C23: with each Client registered at most once and unregistered only after
\* its registration, every Client in the map has an open buffer, so neither
\* SendToUser nor the broadcast case ever sends on a closed channel.
MappedBufferIsOpen ==
    /\ \A u \in UserIDs :
          Lookup(clients, u) # None => ~closed[Lookup(clients, u)]
    /\ \A s \in Senders : slog[s] # "panic"
    /\ pc = "bc_body" => BroadcastLog(clients, message) # "panic"

\* C23 witness: hA was closed and is out of the map; hB, registered after
\* it, is in the map with an open buffer that a SendToUser call enqueued on.
MappedBufferWitness ==
    /\ closed["hA"]
    /\ Lookup(clients, "u1") = "hB"
    /\ ~closed["hB"]
    /\ Send["hB"] # <<>>
    /\ \E s \in Senders : slog[s] = "direct message sent"

\* ============================================================ fair scheduling
\* Two connections of u1, Broadcasts and SendToUser calls for u1, nobody
\* draining.  A goroutine that can run does run: the loop goes on with the
\* case it is in, a caller that can take or release the read lock does, and
\* a select at which a RegisterClient call is waiting again and again takes
\* the register case in the end (select picks among its ready cases at
\* random).  Nothing obliges anyone to call the Manager.
LoopProceeds ==
    \/ RegisterLock /\ UNCHANGED auxVars
    \/ RegisterCS /\ UNCHANGED auxVars
    \/ UnregisterLock /\ UNCHANGED auxVars
    \/ UnregisterCS /\ UNCHANGED auxVars
    \/ BroadcastRLock /\ UNCHANGED auxVars
    \/ BroadcastBody /\ UNCHANGED auxVars
    \/ EvictLock /\ UNCHANGED auxVars
    \/ EvictCS /\ UNCHANGED auxVars
    \/ EvictRLock /\ UNCHANGED auxVars
    \/ BroadcastRUnlock /\ UNCHANGED auxVars

LoopAccepts ==
    \/ \E h \in ReadHandles : RecvRegister(h) /\ UNCHANGED auxVars
    \/ \E h \in ReadHandles : RecvUnregister(h) /\ UNCHANGED auxVars
    \/ \E m \in ReadMessages : RecvBroadcast(m) /\ UNCHANGED auxVars

CallerProceeds ==
    \/ \E s \in Senders : SendRLock(s) /\ UNCHANGED auxVars
    \/ \E s \in Senders, m \in ReadMessages :
          SendBody(s, m.ReceiverID, m) /\ UNCHANGED auxVars

NextFair ==
    \/ \E h \in ReadHandles : RegisterClient(h) /\ UNCHANGED auxVars
    \/ LoopAccepts
    \/ LoopProceeds
    \/ \E s \in Senders : CallSendToUser(s) /\ UNCHANGED auxVars
    \/ CallerProceeds

Fairness ==
    /\ WF_vars(LoopProceeds)
    /\ WF_vars(CallerProceeds)
    /\ \A h \in ReadHandles : SF_vars(RecvRegister(h) /\ UNCHANGED auxVars)

SpecFair == Init /\ [][NextFair]_vars /\ Fairness

\* C24: under fair scheduling every RegisterClient call returns: a Client
\* waiting on m.register is received by the loop in the end, whatever
\* Broadcast and SendToUser traffic runs and however many buffers are full.
RegisterClientReturns ==
    \A h \in ReadHandles : (h \in register) ~> (h \in registered)

\* The broadcast case holds the read lock and is about to find the buffer of
\* Client h, the entry of its message's receiver, full.
BroadcastFindsFull(h) ==
    /\ pc = "bc_body"
    /\ Lookup(clients, message.ReceiverID) = h
    /\ BroadcastLog(clients, message) = "removed due to blocked channel"

\* The default case has just closed the buffer of h and deleted its entry.
Evicted(h) ==
    /\ pc = "evict_rlock"
    /\ closed[h]
    /\ ~IsUserConnected(clients, ID(h))

\* C25: when the loop processes a Broadcast whose receiver is registered
\* with a full buffer, it evicts that receiver in the same iteration: it
\* closes the buffer and removes the entry, after which IsUserConnected of
\* the receiver is false.
BroadcastToFullBufferEvicts ==
    \A h \in ReadHandles : BroadcastFindsFull(h) ~> Evicted(h)

\* ================================================================== teardown
\* Two connections of u1 register, unregister and are evicted by Broadcasts
\* to full buffers; unregDone counts, per Client, the Unregister requests
\* the loop has finished processing.

\* The unregister case receives Unregister(h); its processing is finished at
\* once when the test of m.clients[client.ID] fails.
TeardownRecvUnregister(h) ==
    /\ RecvUnregister(h)
    /\ unregDone' = IF UnregisterFound(clients, h)
                    THEN unregDone
                    ELSE [unregDone EXCEPT ![h] = @ + 1]
    /\ UNCHANGED <<orderVars, queryVars, lastBc, outsideVars, lastOp>>

\* The unregister case finishes Unregister(client), unless close panics.
TeardownUnregisterCS ==
    /\ UnregisterCS
    /\ unregDone' = IF closed[client]
                    THEN unregDone
                    ELSE [unregDone EXCEPT ![client] = @ + 1]
    /\ UNCHANGED <<orderVars, queryVars, lastBc, outsideVars, lastOp>>

NextTeardown ==
    \/ \E h \in ReadHandles : RegisterClient(h) /\ UNCHANGED auxVars
    \/ \E h \in ReadHandles : RecvRegister(h) /\ UNCHANGED auxVars
    \/ RegisterLock /\ UNCHANGED auxVars
    \/ RegisterCS /\ UNCHANGED auxVars
    \/ \E h \in ReadHandles : TeardownRecvUnregister(h)
    \/ UnregisterLock /\ UNCHANGED auxVars
    \/ TeardownUnregisterCS
    \/ \E m \in QueryMessages : RecvBroadcast(m) /\ UNCHANGED auxVars
    \/ BroadcastRLock /\ UNCHANGED auxVars
    \/ BroadcastBody /\ UNCHANGED auxVars
    \/ EvictLock /\ UNCHANGED auxVars
    \/ EvictCS /\ UNCHANGED auxVars
    \/ EvictRLock /\ UNCHANGED auxVars
    \/ BroadcastRUnlock /\ UNCHANGED auxVars
    \/ \E s \in Senders : CallSendToUser(s) /\ UNCHANGED auxVars
    \/ \E s \in Senders : SendRLock(s) /\ UNCHANGED auxVars
    \/ \E s \in Senders, m \in QueryMessages :
          SendBody(s, m.ReceiverID, m) /\ UNCHANGED auxVars

SpecTeardown == Init /\ [][NextTeardown]_vars

\* The step finishes the processing of an Unregister(h) that found no entry
\* under the user id of h: nothing but the loop's count of requests changes.
AbsentUnregisterChangesNothing ==
    \A h \in ReadHandles :
        (unregDone'[h] # unregDone[h] /\ Lookup(clients, ID(h)) = None)
           => /\ UNCHANGED <<mapVars, readers, writer, register>>
              /\ pc = "select" /\ pc' = "select"
              /\ ~crashed'

\* C26: Unregister(h) when no Client is registered under the user id of h
\* (h was unregistered or evicted before) changes nothing: the map and every
\* buffer's contents and open or closed status stay as they were and nothing
\* panics.
AbsentUnregisterIsNoOp == [][AbsentUnregisterChangesNothing]_vars

\* C26 witness: hA was evicted by a Broadcast to its full buffer, and an
\* Unregister(hA) was processed afterwards without a panic.
AbsentUnregisterWitness ==
    /\ unregDone["hA"] = 1
    /\ unregCalls = 1
    /\ closed["hA"]
    /\ Len(Send["hA"]) = BufCap
    /\ ~IsUserConnected(clients, "u1")
    /\ pc = "select"
    /\ ~crashed

\* C27: every Client that was registered and whose Unregister has since been
\* processed has a closed buffer, whatever Registers, Unregisters and
\* evictions of other Clients of the same user id happened in between.
UnregisteredIsClosed ==
    \A h \in ReadHandles :
        (h \in registered /\ unregDone[h] > 0) => closed[h]

\* =========================================================== locks at select
\* C28: whenever the loop waits at its select for the next request it holds
\* neither the write lock nor a read lock: every lock a case acquires is
\* released before the case ends, on every branch.
LoopHoldsNoLockAtSelect ==
    pc = "select" => ~writer /\ Leaked = 0

\* ======================================================= eviction's target
\* From the m.mutex.RUnlock() of the default case to its delete, the Client
\* the loop is about to evict is the one in the map under the receiver's
\* user id, with the full buffer its send failed on, not closed yet.
EvictionTargetIsCurrent ==
    pc \in {"evict_lock", "evict_cs"}
       => /\ ID(client) = message.ReceiverID
          /\ Lookup(clients, message.ReceiverID) = client
          /\ TrySend(client) = "default"

\* A step from bc_body into the default case picks the Client whose send
\* failed; until the eviction's own step the map and the closed flags stay
\* as they are; that step closes and deletes this Client and no other.
EvictionStepHitsTarget ==
    /\ (pc = "bc_body" /\ pc' = "evict_lock")
          => client' = Lookup(clients, message.ReceiverID)
             /\ TrySend(client') = "default"
    /\ (pc \in {"evict_lock", "evict_cs"} /\ pc' # "evict_rlock")
          => UNCHANGED <<clients, closed>>
    /\ (pc = "evict_cs" /\ pc' = "evict_rlock")
          => /\ clients' = [clients EXCEPT ![ID(client)] = None]
             /\ closed' = [closed EXCEPT ![client] = TRUE]

\* C29: the overflow eviction of the broadcast case removes and closes
\* exactly the Client whose enqueue failed: between the loop's RUnlock and
\* its Lock no other Client is installed under that user id, whatever
\* SendToUser, GetConnectedUsers and IsUserConnected calls interleave.
EvictionHitsFailedClient ==
    []EvictionTargetIsCurrent /\ [][EvictionStepHitsTarget]_vars

\* C29 witness: the loop waits for the write lock to evict hA while a read
\* operation is in its body and hB waits on m.register to be installed
\* under the same user id.
EvictionTargetWitness ==
    /\ pc = "evict_lock"
    /\ client = "hA"
    /\ "hB" \in register
    /\ \E s \in Senders : spc[s] = "q_body"

\* ============================================================ empty user id
\* A connection whose Client.ID is "" and a connection of u1 register and
\* unregister; Broadcasts and SendToUser calls are addressed to "" and to
\* u1; nobody drains.  lastBc is the Message the broadcast case received
\* last.
EmptyHandles == {EmptyIDHandle, "hA"}

EmptyMessages ==
    {m \in Messages : m.ReceiverID \in {"", "u1"} /\ ~Marshal(m).err}

\* case message := <-m.broadcast, recorded.
EmptyRecvBroadcast(m) ==
    /\ RecvBroadcast(m)
    /\ lastBc' = m
    /\ UNCHANGED <<orderVars, queryVars, unregDone, outsideVars, lastOp>>

NextEmpty ==
    \/ \E h \in EmptyHandles : RegisterClient(h) /\ UNCHANGED auxVars
    \/ \E h \in EmptyHandles : RecvRegister(h) /\ UNCHANGED auxVars
    \/ RegisterLock /\ UNCHANGED auxVars
    \/ RegisterCS /\ UNCHANGED auxVars
    \/ \E h \in EmptyHandles : RecvUnregister(h) /\ UNCHANGED auxVars
    \/ UnregisterLock /\ UNCHANGED auxVars
    \/ UnregisterCS /\ UNCHANGED auxVars
    \/ \E m \in EmptyMessages : EmptyRecvBroadcast(m)
    \/ BroadcastRLock /\ UNCHANGED auxVars
    \/ BroadcastBody /\ UNCHANGED auxVars
    \/ EvictLock /\ UNCHANGED auxVars
    \/ EvictCS /\ UNCHANGED auxVars
    \/ EvictRLock /\ UNCHANGED auxVars
    \/ BroadcastRUnlock /\ UNCHANGED auxVars
    \/ \E s \in Senders : CallSendToUser(s) /\ UNCHANGED auxVars
    \/ \E s \in Senders : SendRLock(s) /\ UNCHANGED auxVars
    \/ \E s \in Senders, m \in EmptyMessages :
          SendBody(s, m.ReceiverID, m) /\ UNCHANGED auxVars

SpecEmpty == Init /\ [][NextEmpty]_vars

\* The broadcast case is never past its test with a Message whose ReceiverID
\* is empty: it takes no lock and makes no lookup for one.
EmptyReceiverStopsAtTest ==
    pc \in {"bc_rlock", "bc_body", "bc_runlock", "evict_lock", "evict_cs",
            "evict_rlock"}
       => message.ReceiverID # ""

\* A step that receives a Broadcast with an empty ReceiverID leaves the map,
\* the buffers, the closed flags and the mutex as they are and the loop at
\* its select; the buffer of the Client registered under "" changes only in
\* the body of a SendToUser call.
EmptyReceiverChangesNothing ==
    /\ (lastBc' # lastBc /\ lastBc'.ReceiverID = "")
          => /\ UNCHANGED <<mapVars, readers, writer>>
             /\ pc = "select" /\ pc' = "select"
    /\ Send'[EmptyIDHandle] # Send[EmptyIDHandle]
          => \E s \in Senders : spc[s] = "body" /\ spc'[s] = "idle"

\* C30: a Broadcast of a Message whose receiver_id is empty is ignored: no
\* lock is taken, no lookup or enqueue happens, the map and all buffers are
\* unchanged, even when a Client is registered under the empty user id,
\* which SendToUser("", m) reaches.
EmptyReceiverIsIgnored ==
    []EmptyReceiverStopsAtTest /\ [][EmptyReceiverChangesNothing]_vars

\* C30 witness: a Client is in the map under "", SendToUser("", m) put a
\* payload on its buffer, and the last Broadcast the loop received had an
\* empty receiver_id.
EmptyReceiverWitness ==
    /\ Lookup(clients, "") = EmptyIDHandle
    /\ Len(Send[EmptyIDHandle]) = 1
    /\ \E s \in Senders : slog[s] = "direct message sent"
    /\ lastBc.ReceiverID = ""
    /\ pc = "select"

====
